---- MODULE Spec2Model ----
(***************************************************************************)
(* Model of rawterm's Operation: the key dispatch loop (Operation.ioloop), *)
(* the synchronous read entry point (Operation.Runes) and the unbuffered   *)
(* outchan/errchan handoff between them, the password submode              *)
(* (PasswordWithConfig, SetConfig), the wrapped output writer              *)
(* (wrapWriter.Write), and the Result helpers of readline.go.  RuneBuffer, *)
(* Terminal and opPassword are collaborators whose behaviour is taken from *)
(* their specified contracts.                                              *)
(***************************************************************************)
EXTENDS Integers, Sequences, FiniteSets, TLC

VARIABLES buf, idx, cfg, rawMode, reading, eos, lpc, key, sawEOS, fx, pending, cpc, ret,
          userCfg, wrote, frune, subst, lok, kcfg, clog,
          backupCfg, shown,
          wpc, wfx, wret, tret, width

\* userCfg  the Config as it was handed to NewOperation, before Config.Init
\* wrote    the text the switch wrote into the line for the key in hand
\* frune    the rune the filter returned for the key in hand
\* subst    whether that rune differs from the key the terminal read
\* lok      what the listener answered after the last key: "accepted",
\*          "declined", or "none" when it was not called
\* kcfg     o.cfg as it was when the key in hand was read
\* clog     the steps the current Runes call has taken

\* opPassword's saved configuration and the prompt and mask the buffer renders
pvars == <<backupCfg, shown>>

\* a writer on the wrapped Stdout/Stderr, and the terminal width
wvars == <<wpc, wfx, wret, tret, width>>

vars == <<buf, idx, cfg, rawMode, reading, eos, lpc, key, sawEOS, fx, pending, cpc, ret,
          userCfg, wrote, frune, subst, lok, kcfg, clog, pvars, wvars>>

(* ---------------- bounds ---------------- *)

\* longest line content the keyboard is allowed to build
MaxLen == 2

(* ---------------- key codes ---------------- *)

CharLineStart == 1
CharBackward == 2
CharInterrupt == 3
CharDelete == 4
CharLineEnd == 5
CharForward == 6
CharBell == 7
CharCtrlH == 8
CharTab == 9
CharCtrlJ == 10
CharKill == 11
CharCtrlL == 12
CharEnter == 13
CharBckSearch == 18
CharFwdSearch == 19
CharTranspose == 20
CharCtrlU == 21
CharCtrlW == 23
CharCtrlZ == 26
CharBackspace == 127
MetaBackward == 0 - 1
MetaForward == 0 - 2
MetaDelete == 0 - 3
MetaBackspace == 0 - 4
MetaTranspose == 0 - 5

\* rune 0: the transport's end-of-stream key
CharEOS == 0
\* printable runes typed in the model: 'a' and ' '
RuneA == 97
RuneSpace == 32
RuneNL == 10

Printable == {RuneA, RuneSpace}

ControlKeys ==
    {CharLineStart, CharBackward, CharInterrupt, CharDelete, CharLineEnd,
     CharForward, CharBell, CharCtrlH, CharTab, CharCtrlJ, CharKill,
     CharCtrlL, CharEnter, CharBckSearch, CharFwdSearch, CharTranspose,
     CharCtrlU, CharCtrlW, CharCtrlZ, CharBackspace, MetaBackward,
     MetaForward, MetaDelete, MetaBackspace, MetaTranspose}

Keys == Printable \cup ControlKeys \cup {CharEOS}

\* keys after which the terminal stops reading until it is kicked again
StopKeys == {CharInterrupt, CharEnter, CharCtrlJ, CharDelete}

(* ---------------- RuneBuffer ---------------- *)

Min(a, b) == IF a < b THEN a ELSE b
Max(a, b) == IF a > b THEN a ELSE b

RB(b, i) == [buf |-> b, idx |-> i]

NewRuneBuffer == RB(<<>>, 0)

RBLen(b) == Len(b.buf)

WriteRunes(b, s) ==
    RB(SubSeq(b.buf, 1, b.idx) \o s \o SubSeq(b.buf, b.idx + 1, Len(b.buf)),
       b.idx + Len(s))

WriteRune(b, r) == WriteRunes(b, <<r>>)

WriteString(b, s) == WriteRunes(b, s)

MoveToLineStart(b) == RB(b.buf, 0)

MoveToLineEnd(b) == RB(b.buf, Len(b.buf))

MoveBackward(b) == IF b.idx = 0 THEN b ELSE RB(b.buf, b.idx - 1)

MoveForward(b) == IF b.idx = Len(b.buf) THEN b ELSE RB(b.buf, b.idx + 1)

\* removes the code point at the cursor; ok is FALSE at the end of content
Delete(b) ==
    IF b.idx = Len(b.buf)
    THEN [b |-> b, ok |-> FALSE]
    ELSE [b |-> RB(SubSeq(b.buf, 1, b.idx) \o SubSeq(b.buf, b.idx + 2, Len(b.buf)), b.idx),
          ok |-> TRUE]

Backspace(b) ==
    IF b.idx = 0
    THEN b
    ELSE RB(SubSeq(b.buf, 1, b.idx - 1) \o SubSeq(b.buf, b.idx + 1, Len(b.buf)), b.idx - 1)

IsWordBreak(r) == r = RuneSpace

\* cursor positions (0-based) at which a word starts
WordStarts(b) ==
    {i \in 1..(Len(b.buf) - 1) : ~IsWordBreak(b.buf[i + 1]) /\ IsWordBreak(b.buf[i])}

NextWordPos(b) ==
    LET c == {i \in WordStarts(b) : i > b.idx}
    IN  IF c = {} THEN Len(b.buf) ELSE CHOOSE i \in c : \A j \in c : i <= j

PrevWordPos(b) ==
    LET c == {i \in WordStarts(b) : i < b.idx}
    IN  IF c = {} THEN 0 ELSE CHOOSE i \in c : \A j \in c : i >= j

MoveToNextWord(b) == RB(b.buf, NextWordPos(b))

MoveToPrevWord(b) == RB(b.buf, PrevWordPos(b))

DeleteWord(b) ==
    RB(SubSeq(b.buf, 1, b.idx) \o SubSeq(b.buf, NextWordPos(b) + 1, Len(b.buf)), b.idx)

BackEscapeWord(b) ==
    RB(SubSeq(b.buf, 1, PrevWordPos(b)) \o SubSeq(b.buf, b.idx + 1, Len(b.buf)),
       PrevWordPos(b))

Kill(b) == RB(SubSeq(b.buf, 1, b.idx), b.idx)

KillFront(b) == RB(SubSeq(b.buf, b.idx + 1, Len(b.buf)), 0)

Transpose(b) ==
    IF b.idx >= 1 /\ b.idx < Len(b.buf)
    THEN RB([b.buf EXCEPT ![b.idx] = b.buf[b.idx + 1], ![b.idx + 1] = b.buf[b.idx]],
            b.idx + 1)
    ELSE b

\* Reset returns the content and leaves the buffer empty with cursor 0
Reset(b) == [data |-> b.buf, b |-> RB(<<>>, 0)]

\* replaces content and cursor; an out-of-range cursor is clamped
SetWithIdx(i, s) == RB(s, Max(0, Min(i, Len(s))))

(* ---------------- Config ---------------- *)

PromptC == <<94, 67>>
PromptD == <<94, 68>>

\* ConfigInit leaving both banners as they were configured
ConfigInitAsGiven(c) == c

\* Config.Init: runs once per Config; "" selects the default banner, "\n"
\* selects no banner
ConfigInit(c) ==
    IF c.inited THEN c ELSE
    [c EXCEPT
       !.inited = TRUE,
       !.InterruptPrompt = IF @ = <<>> THEN PromptC
                           ELSE IF @ = <<RuneNL>> THEN <<>> ELSE @,
       !.EOFPrompt = IF @ = <<>> THEN PromptD
                     ELSE IF @ = <<RuneNL>> THEN <<>> ELSE @]

\* the configurations tried: every combination of the three switches, with
\* one banner left at its default and the other one suppressed
RawConfigs ==
    {c \in [inited : {FALSE},
            Prompt : {"> "},
            MaskRune : {0},
            UniqueEditLine : BOOLEAN,
            Listener : BOOLEAN,
            FuncFilterInputRune : BOOLEAN,
            InterruptPrompt : {<<>>, <<RuneNL>>},
            EOFPrompt : {<<>>, <<RuneNL>>}] :
        c.InterruptPrompt # c.EOFPrompt}

\* a nil *Config
NoCfg ==
    [inited |-> FALSE, Prompt |-> "nil", MaskRune |-> 0, UniqueEditLine |-> FALSE,
     Listener |-> FALSE, FuncFilterInputRune |-> FALSE,
     InterruptPrompt |-> <<>>, EOFPrompt |-> <<>>]

\* op.SetPrompt(cfg.Prompt); op.SetMaskRune(cfg.MaskRune)
Shown(c) == [prompt |-> c.Prompt, mask |-> c.MaskRune]

(* ---------------- messages and results ---------------- *)

ErrNil == "nil"
ErrInterrupt == "Interrupt"
EOF == "EOF"

NoMsg == [ch |-> "none", type |-> "none", Line |-> <<>>]
LineMsg(d) == [ch |-> "outchan", type |-> "line", Line |-> d]
EOFMsg == [ch |-> "errchan", type |-> "EOF", Line |-> <<>>]
InterruptError(d) == [ch |-> "errchan", type |-> "InterruptError", Line |-> d]

NoRet == [text |-> <<>>, err |-> "running"]


(* ---------------- Operation.ioloop: the key switch ---------------- *)

\* what one pass through the switch produced: the buffer, the value to send
\* (NoMsg when the key emits nothing), the terminal effects, and whether
\* KickRead was called
OutW(b, m, e, k, w) == [b |-> b, send |-> m, fx |-> e, kick |-> k, wrote |-> w]

\* a pass that writes no text of its own into the line
Out(b, m, e, k) == OutW(b, m, e, k, <<>>)

\* Operation.Refresh: redraws only while the terminal is reading
OpRefresh(rd) == IF rd THEN {"Refresh"} ELSE {}

\* EnterCase without the move to the line end
EnterCaseNoMove(b, c) ==
    IF ~c.UniqueEditLine
    THEN LET r == Reset(WriteRune(b, RuneNL))
         IN  OutW(r.b, LineMsg(SubSeq(r.data, 1, Len(r.data) - 1)), {}, FALSE, <<RuneNL>>)
    ELSE LET r == Reset(b)
         IN  Out(r.b, LineMsg(r.data), {"Clean"}, FALSE)

\* case CharEnter, CharCtrlJ
EnterCase(b, c) ==
    LET e == MoveToLineEnd(b)
    IN  IF ~c.UniqueEditLine
        THEN LET r == Reset(WriteRune(e, RuneNL))
             IN  OutW(r.b, LineMsg(SubSeq(r.data, 1, Len(r.data) - 1)), {}, FALSE, <<RuneNL>>)
        ELSE LET r == Reset(e)
             IN  Out(r.b, LineMsg(r.data), {"Clean"}, FALSE)

\* DeleteCase testing the cursor instead of the length
DeleteCaseAtEnd(b, c) ==
    IF b.idx < RBLen(b)
    THEN LET d == Delete(b)
         IN  Out(d.b, NoMsg, {"KickRead"} \cup (IF d.ok THEN {} ELSE {"Bell"}), TRUE)
    ELSE LET hint == IF ~c.UniqueEditLine THEN c.EOFPrompt \o <<RuneNL>> ELSE <<>>
             w == IF ~c.UniqueEditLine THEN WriteString(b, hint) ELSE b
         IN  OutW(Reset(w).b, EOFMsg, {}, FALSE, hint)

\* case CharDelete
DeleteCase(b, c) ==
    IF RBLen(b) > 0
    THEN LET d == Delete(b)
         IN  Out(d.b, NoMsg, {"KickRead"} \cup (IF d.ok THEN {} ELSE {"Bell"}), TRUE)
    ELSE LET hint == IF ~c.UniqueEditLine THEN c.EOFPrompt \o <<RuneNL>> ELSE <<>>
             w == IF ~c.UniqueEditLine THEN WriteString(b, hint) ELSE b
         IN  OutW(Reset(w).b, EOFMsg, {}, FALSE, hint)

\* InterruptCase trimming the banner without its line terminator
InterruptCaseShortTrim(b, c) ==
    LET e == MoveToLineEnd(b)
        hint == c.InterruptPrompt \o <<RuneNL>>
        w == IF ~c.UniqueEditLine THEN WriteString(e, hint) ELSE e
        r == Reset(w)
        remain == IF ~c.UniqueEditLine
                  THEN SubSeq(r.data, 1, Len(r.data) - Len(c.InterruptPrompt))
                  ELSE r.data
    IN  OutW(r.b, InterruptError(remain), {"Refresh"}, FALSE,
             IF ~c.UniqueEditLine THEN hint ELSE <<>>)

\* case CharInterrupt
InterruptCase(b, c) ==
    LET e == MoveToLineEnd(b)
        hint == c.InterruptPrompt \o <<RuneNL>>
        w == IF ~c.UniqueEditLine THEN WriteString(e, hint) ELSE e
        r == Reset(w)
        remain == IF ~c.UniqueEditLine
                  THEN SubSeq(r.data, 1, Len(r.data) - Len(hint))
                  ELSE r.data
    IN  OutW(r.b, InterruptError(remain), {"Refresh"}, FALSE,
             IF ~c.UniqueEditLine THEN hint ELSE <<>>)

\* case CharBackspace, CharCtrlH
BackspaceCase(b) ==
    IF RBLen(b) = 0 THEN Out(b, NoMsg, {"Bell"}, FALSE)
    ELSE Out(Backspace(b), NoMsg, {}, FALSE)

\* switch r { ... } of ioloop
Dispatch(b, r, c, rd) ==
    CASE r \in {CharTab, CharBckSearch, CharFwdSearch} -> Out(b, NoMsg, {"Bell"}, FALSE)
      [] r = CharCtrlU -> Out(KillFront(b), NoMsg, {}, FALSE)
      [] r = CharKill -> Out(Kill(b), NoMsg, {}, FALSE)
      [] r = MetaForward -> Out(MoveToNextWord(b), NoMsg, {}, FALSE)
      [] r = CharTranspose -> Out(Transpose(b), NoMsg, {}, FALSE)
      [] r = MetaBackward -> Out(MoveToPrevWord(b), NoMsg, {}, FALSE)
      [] r = MetaDelete -> Out(DeleteWord(b), NoMsg, {}, FALSE)
      [] r = CharLineStart -> Out(MoveToLineStart(b), NoMsg, {}, FALSE)
      [] r = CharLineEnd -> Out(MoveToLineEnd(b), NoMsg, {}, FALSE)
      [] r \in {CharBackspace, CharCtrlH} -> BackspaceCase(b)
      [] r = CharCtrlZ -> Out(b, NoMsg, {"Clean", "SleepToResume"} \cup OpRefresh(rd), FALSE)
      [] r = CharCtrlL -> Out(b, NoMsg, {"ClearScreen"} \cup OpRefresh(rd), FALSE)
      [] r \in {MetaBackspace, CharCtrlW} -> Out(BackEscapeWord(b), NoMsg, {}, FALSE)
      [] r \in {CharEnter, CharCtrlJ} -> EnterCase(b, c)
      [] r = CharBackward -> Out(MoveBackward(b), NoMsg, {}, FALSE)
      [] r = CharForward -> Out(MoveForward(b), NoMsg, {}, FALSE)
      [] r = CharDelete -> DeleteCase(b, c)
      [] r = CharInterrupt -> InterruptCase(b, c)
      [] OTHER -> Out(WriteRune(b, r), NoMsg, {}, FALSE)

\* EOSKey without the rewrite to CharEnter
EOSKeyKeep(r) == r

\* if r == 0 with something left in the buffer: flush it by sending CharEnter
EOSKey(r) == IF r = CharEOS THEN CharEnter ELSE r

\* AfterSend breaking out of the loop after every io.EOF
AfterSendBreakOnEOF(r) == IF r \in {CharEOS, CharDelete} THEN "done" ELSE "post"

\* where the loop continues once its send has been taken: the end-of-stream
\* branch breaks out of the for loop, every switch case goes on to the listener
AfterSend(r) == IF r = CharEOS THEN "done" ELSE "post"

(* ---------------- Listener ---------------- *)

ListenerLines == {<<>>, <<RuneA>>, <<RuneA, RuneSpace>>}

\* what a Listener.OnChange call may return
ListenerResults ==
    [newLine : ListenerLines, newPos : (0 - 1)..(MaxLen + 1), ok : BOOLEAN]

\* ListenerApply storing the returned fields directly
ListenerApplyRaw(b, res) ==
    IF res.ok THEN RB(res.newLine, res.newPos) ELSE b

\* if ok { o.buf.SetWithIdx(newPos, newLine) }
ListenerApply(b, res) ==
    IF res.ok THEN SetWithIdx(res.newPos, res.newLine) ELSE b

(* ---------------- Operation.Runes ---------------- *)

\* RunesResult without the InterruptError translation
RunesResultOpaque(m) ==
    IF m.ch = "outchan" THEN [text |-> m.Line, err |-> ErrNil]
    ELSE [text |-> <<>>, err |-> m.type]

\* the select of Runes: the pair returned for a value taken from a channel
RunesResult(m) ==
    IF m.ch = "outchan" THEN [text |-> m.Line, err |-> ErrNil]
    ELSE IF m.type = "InterruptError" THEN [text |-> m.Line, err |-> ErrInterrupt]
    ELSE [text |-> <<>>, err |-> m.type]

(* ---------------- Result ---------------- *)

\* UTF-8 bytes of one rune: an invalid rune encodes as U+FFFD
Utf8(r) == IF r < 0 THEN <<239, 191, 189>> ELSE <<r>>

RECURSIVE StringOf(_)
\* string([]rune)
StringOf(s) == IF s = <<>> THEN <<>> ELSE Utf8(Head(s)) \o StringOf(Tail(s))

\* Instance.Line / Operation.String
Result(r) == [Line |-> StringOf(r.text), Error |-> r.err]

\* Operation.String: string(r), err
String(r) == [text |-> StringOf(r.text), err |-> r.err]

\* Operation.Slice: nil on any error, []byte(string(r)) otherwise
Slice(r) ==
    IF r.err # ErrNil THEN [text |-> <<>>, err |-> r.err]
    ELSE [text |-> StringOf(r.text), err |-> ErrNil]

\* Instance.Readline
Readline(r) == String(r)

\* Instance.ReadSlice
ReadSlice(r) == Slice(r)

CanContinue(l) == Len(l.Line) # 0 /\ l.Error = ErrInterrupt

\* CanBreak ignoring CanContinue
CanBreakAnyError(l) == l.Error # ErrNil

CanBreak(l) == ~CanContinue(l) /\ l.Error # ErrNil

(* ---------------- initial state ---------------- *)

\* nothing returned by a Write
NoWrite == [n |-> 0 - 1, err |-> "none"]

\* NewOperation: an empty buffer, the configuration initialised by SetConfig,
\* the loop started, nobody reading yet
Init ==
    /\ buf = <<>>
    /\ idx = 0
    /\ userCfg \in RawConfigs
    /\ cfg = ConfigInit(userCfg)
    /\ rawMode = FALSE
    /\ reading = FALSE
    /\ eos = FALSE
    /\ lpc = "read"
    /\ key = CharEOS
    /\ fx = {}
    /\ sawEOS = FALSE
    /\ pending = NoMsg
    /\ cpc = "idle"
    /\ ret = NoRet
    /\ wrote = <<>>
    /\ frune = CharEOS
    /\ subst = FALSE
    /\ lok = "none"
    /\ kcfg = NoCfg
    /\ clog = <<>>
    /\ backupCfg = NoCfg
    /\ shown = Shown(cfg)
    /\ wpc = "idle"
    /\ wfx = [out |-> <<>>, reading |-> FALSE]
    /\ wret = NoWrite
    /\ tret = NoWrite
    /\ width = 80

(* ---------------- the dispatch loop ---------------- *)

\* Terminal.ReadRune: the loop is asleep until KickRead wakes the terminal;
\* once the stream has ended only the end-of-stream key is delivered
KeyAvail(k) == reading /\ (eos => k = CharEOS)

\* the terminal stops reading after it has delivered a terminating key or
\* the end-of-stream key, until KickRead wakes it again
AfterKey(k) == IF k \in StopKeys \cup {CharEOS} THEN FALSE ELSE reading

\* keys a filter puts in the place of k: a terminating key is translated to
\* a terminating key or to end-of-stream, an editing key to an editing key
FilterSubst(k) ==
    IF k \in StopKeys \cup {CharEOS}
    THEN {CharEOS, CharEnter, CharInterrupt, CharDelete}
    ELSE {RuneA, CharBell, CharLineStart}

\* FuncFilterInputRune: pass, substitute, or veto
FilterOut(k) ==
    IF cfg.FuncFilterInputRune
    THEN {[r |-> k, process |-> TRUE], [r |-> k, process |-> FALSE]}
         \cup {[r |-> x, process |-> TRUE] : x \in FilterSubst(k)}
    ELSE {[r |-> k, process |-> TRUE]}

\* r, process = o.cfg.FuncFilterInputRune(r): the loop goes on with the rune
\* the filter returned
Filtered(k, f) == f.r

\* the filter vetoes the key: the line is refreshed and the rune ignored
LoopVeto ==
    /\ lpc = "read"
    /\ \E k \in Keys : \E f \in FilterOut(k) :
          /\ KeyAvail(k)
          /\ ~f.process
          /\ reading' = AfterKey(k)
          /\ eos' = (eos \/ k = CharEOS)
    /\ fx' = {"Refresh"}
    /\ lok' = "none"
    /\ lpc' = "veto"
    /\ UNCHANGED <<buf, idx, cfg, rawMode, key, sawEOS, pending, cpc, ret>>
    /\ UNCHANGED <<userCfg, wrote, frune, subst, kcfg, clog, pvars, wvars>>

\* LoopContinue falling through to the listener
LoopContinueToListener ==
    /\ lpc = "veto"
    /\ lpc' = "post"
    /\ fx' = {}
    /\ UNCHANGED <<buf, idx, cfg, rawMode, reading, eos, key, sawEOS, pending, cpc, ret>>
    /\ UNCHANGED <<userCfg, wrote, frune, subst, lok, kcfg, clog, pvars, wvars>>

\* continue: back to ReadRune without reaching the switch or the listener
LoopContinue ==
    /\ lpc = "veto"
    /\ lpc' = "read"
    /\ fx' = {}
    /\ UNCHANGED <<buf, idx, cfg, rawMode, reading, eos, key, sawEOS, pending, cpc, ret>>
    /\ UNCHANGED <<userCfg, wrote, frune, subst, lok, kcfg, clog, pvars, wvars>>

\* r == 0 with an empty buffer: clean, offer io.EOF on errchan, then break
LoopEOF ==
    /\ lpc = "read"
    /\ \E k \in Keys : \E f \in FilterOut(k) :
          /\ KeyAvail(k)
          /\ f.process
          /\ Filtered(k, f) = CharEOS
          /\ reading' = AfterKey(k)
          /\ eos' = (eos \/ k = CharEOS)
          /\ frune' = f.r
          /\ subst' = (f.r # k)
    /\ Len(buf) = 0
    /\ fx' = {"Clean"}
    /\ key' = CharEOS
    /\ pending' = EOFMsg
    /\ sawEOS' = TRUE
    /\ wrote' = <<>>
    /\ lok' = "none"
    /\ kcfg' = cfg
    /\ lpc' = "send"
    /\ UNCHANGED <<buf, idx, cfg, rawMode, cpc, ret>>
    /\ UNCHANGED <<userCfg, clog, pvars, wvars>>

\* SendPc going on without waiting for the value to be taken
SendPcBuffered(m) == "post"

\* a send on an unbuffered channel blocks the loop until the value is taken
SendPc(m) == IF m = NoMsg THEN "post" ELSE "send"

\* every other key goes through the switch
LoopDispatch ==
    /\ lpc = "read"
    /\ \E k \in Keys : \E f \in FilterOut(k) :
          /\ KeyAvail(k)
          /\ f.process
          /\ ~(Filtered(k, f) = CharEOS /\ Len(buf) = 0)
          /\ LET r == EOSKey(Filtered(k, f))
                 d == Dispatch(RB(buf, idx), r, cfg, AfterKey(k))
             IN  /\ Len(d.b.buf) <= MaxLen
                 /\ buf' = d.b.buf
                 /\ idx' = d.b.idx
                 /\ fx' = d.fx
                 /\ wrote' = d.wrote
                 /\ key' = r
                 /\ sawEOS' = (Filtered(k, f) = CharEOS)
                 /\ frune' = f.r
                 /\ subst' = (f.r # k)
                 /\ reading' = (AfterKey(k) \/ d.kick)
                 /\ eos' = (eos \/ k = CharEOS)
                 /\ pending' = d.send
                 /\ lpc' = SendPc(d.send)
    /\ lok' = "none"
    /\ kcfg' = cfg
    /\ UNCHANGED <<cfg, rawMode, cpc, ret>>
    /\ UNCHANGED <<userCfg, clog, pvars, wvars>>

\* LoopListener going back to ReadRune without calling the listener
LoopListenerSkip ==
    /\ lpc = "post"
    /\ lpc' = "read"
    /\ key' = CharEOS
    /\ sawEOS' = FALSE
    /\ fx' = {}
    /\ wrote' = <<>>
    /\ frune' = CharEOS
    /\ subst' = FALSE
    /\ kcfg' = NoCfg
    /\ UNCHANGED <<buf, idx, lok, cfg, eos, rawMode, reading, pending, cpc, ret>>
    /\ UNCHANGED <<userCfg, clog, pvars, wvars>>

\* after the switch: the listener of the current configuration sees the
\* buffer and the key, and may replace content and cursor; then the loop
\* reads the next key.  (The Clean that follows the io.EOF send of CharDelete
\* only erases the rendering.)
LoopListener ==
    /\ lpc = "post"
    /\ IF cfg.Listener
       THEN \E res \in ListenerResults :
               LET b == ListenerApply(RB(buf, idx), res)
               IN  /\ buf' = b.buf
                   /\ idx' = b.idx
                   /\ lok' = IF res.ok THEN "accepted" ELSE "declined"
       ELSE UNCHANGED <<buf, idx, lok>>
    /\ lpc' = "read"
    /\ key' = CharEOS
    /\ sawEOS' = FALSE
    /\ fx' = {}
    /\ wrote' = <<>>
    /\ frune' = CharEOS
    /\ subst' = FALSE
    /\ kcfg' = NoCfg
    /\ UNCHANGED <<cfg, eos, rawMode, reading, pending, cpc, ret>>
    /\ UNCHANGED <<userCfg, clog, pvars, wvars>>

(* ---------------- the caller: Operation.Runes ---------------- *)

\* o.t.EnterRawMode(); defer o.t.ExitRawMode()
RunesEnter ==
    /\ cpc \in {"idle", "pwin"}
    /\ rawMode' = TRUE
    /\ cpc' = "raw"
    /\ clog' = <<"EnterRawMode">>
    /\ UNCHANGED <<buf, idx, cfg, eos, reading, lpc, key, sawEOS, fx, pending, ret>>
    /\ UNCHANGED <<userCfg, wrote, frune, subst, lok, kcfg, pvars, wvars>>

\* RunesNotify waking the terminal before anything else
RunesNotifyKickFirst ==
    /\ cpc = "raw"
    /\ cpc' = "notified"
    /\ reading' = TRUE
    /\ clog' = clog \o <<"KickRead">>
             \o (IF cfg.Listener THEN <<"OnChange">> ELSE <<>>)
    /\ UNCHANGED <<buf, idx, cfg, eos, rawMode, lpc, key, sawEOS, fx, pending, ret>>
    /\ UNCHANGED <<userCfg, wrote, frune, subst, lok, kcfg, pvars, wvars>>

\* if o.cfg.Listener != nil { o.cfg.Listener.OnChange(nil, 0, 0) }: the
\* result of the initial call is discarded
RunesNotify ==
    /\ cpc = "raw"
    /\ cpc' = "notified"
    /\ clog' = clog \o (IF cfg.Listener THEN <<"OnChange">> ELSE <<>>)
    /\ UNCHANGED <<buf, idx, cfg, eos, rawMode, reading, lpc, key, sawEOS, fx, pending, ret>>
    /\ UNCHANGED <<userCfg, wrote, frune, subst, lok, kcfg, pvars, wvars>>

\* o.buf.Refresh(nil): print the prompt
RunesRefresh ==
    /\ cpc = "notified"
    /\ cpc' = "rendered"
    /\ clog' = Append(clog, "Refresh")
    /\ UNCHANGED <<buf, idx, cfg, eos, rawMode, reading, lpc, key, sawEOS, fx, pending, ret>>
    /\ UNCHANGED <<userCfg, wrote, frune, subst, lok, kcfg, pvars, wvars>>

\* o.t.KickRead()
RunesKick ==
    /\ cpc = "rendered"
    /\ reading' = TRUE
    /\ cpc' = "wait"
    /\ clog' = Append(clog, "KickRead")
    /\ UNCHANGED <<buf, idx, cfg, eos, rawMode, lpc, key, sawEOS, fx, pending, ret>>
    /\ UNCHANGED <<userCfg, wrote, frune, subst, lok, kcfg, pvars, wvars>>

\* the rendezvous on outchan/errchan: the loop's send meets the select
RunesRecv ==
    /\ cpc = "wait"
    /\ lpc = "send"
    /\ ret' = RunesResult(pending)
    /\ pending' = NoMsg
    /\ cpc' = "got"
    /\ lpc' = AfterSend(key)
    /\ clog' = Append(clog, "select")
    /\ UNCHANGED <<buf, idx, cfg, eos, rawMode, reading, key, sawEOS, fx>>
    /\ UNCHANGED <<userCfg, wrote, frune, subst, lok, kcfg, pvars, wvars>>

\* ReturnTo running ExitPasswordMode only when the read succeeded
ReturnToOnSuccess(b, r) == IF b # NoCfg /\ r.err = ErrNil THEN "pwexit" ELSE "idle"

\* where Runes returns to: inside PasswordWithConfig the deferred
\* ExitPasswordMode is still to run, whatever Slice returned
ReturnTo(b, r) == IF b # NoCfg THEN "pwexit" ELSE "idle"

\* RunesReturn leaving raw mode only on the completed-line path
RunesReturnNoDefer ==
    /\ cpc = "got"
    /\ rawMode' = IF ret.err = ErrNil THEN FALSE ELSE rawMode
    /\ ret' = NoRet
    /\ cpc' = ReturnTo(backupCfg, ret)
    /\ clog' = <<>>
    /\ UNCHANGED <<buf, idx, cfg, eos, reading, lpc, key, sawEOS, fx, pending>>
    /\ UNCHANGED <<userCfg, wrote, frune, subst, lok, kcfg, pvars, wvars>>

\* return: the deferred ExitRawMode runs and the pair goes to the caller
RunesReturn ==
    /\ cpc = "got"
    /\ rawMode' = FALSE
    /\ ret' = NoRet
    /\ cpc' = ReturnTo(backupCfg, ret)
    /\ clog' = <<>>
    /\ UNCHANGED <<buf, idx, cfg, eos, reading, lpc, key, sawEOS, fx, pending>>
    /\ UNCHANGED <<userCfg, wrote, frune, subst, lok, kcfg, pvars, wvars>>

Next ==
    \/ LoopVeto
    \/ LoopContinue
    \/ LoopEOF
    \/ LoopDispatch
    \/ LoopListener
    \/ RunesEnter
    \/ RunesNotify
    \/ RunesRefresh
    \/ RunesKick
    \/ RunesRecv
    \/ RunesReturn

Spec == Init /\ [][Next]_vars

(* ---------------- Password submode ---------------- *)

\* the configurations handed to PasswordWithConfig: a masked prompt with
\* both banners suppressed, with or without a listener of its own
PwConfigs ==
    {[inited |-> FALSE, Prompt |-> "Password: ", MaskRune |-> 42,
      UniqueEditLine |-> FALSE, Listener |-> l, FuncFilterInputRune |-> FALSE,
      InterruptPrompt |-> <<RuneNL>>, EOFPrompt |-> <<RuneNL>>] : l \in BOOLEAN}

\* Operation.SetConfig: the same Config is left alone; a failing Init leaves
\* op.cfg alone; otherwise the Config is initialised and swapped in, together
\* with the buffer's prompt and mask, and the old one is returned
SetConfig(cur, sh, new, initErr) ==
    IF cur = new THEN [cfg |-> cur, shown |-> sh, old |-> cur, err |-> FALSE]
    ELSE IF initErr /\ ~new.inited
    THEN [cfg |-> cur, shown |-> sh, old |-> cur, err |-> TRUE]
    ELSE LET c == ConfigInit(new)
         IN  [cfg |-> c, shown |-> Shown(c), old |-> cur, err |-> FALSE]

\* the error PasswordWithConfig returns when EnterPasswordMode fails
ErrEnter == "EnterPasswordMode"

\* opPassword.EnterPasswordMode: swaps the configuration in through
\* SetConfig and keeps the one it replaced; nothing is kept when it fails
EnterPasswordMode(cur, sh, bk, new, initErr) ==
    LET s == SetConfig(cur, sh, new, initErr)
    IN  [cfg |-> s.cfg, shown |-> s.shown, err |-> s.err,
         backupCfg |-> IF s.err THEN bk ELSE s.old]

\* opPassword.ExitPasswordMode: swaps the kept configuration back in through
\* SetConfig and forgets it
ExitPasswordMode(cur, sh, bk) ==
    LET s == SetConfig(cur, sh, bk, FALSE)
    IN  [cfg |-> s.cfg, shown |-> s.shown, backupCfg |-> NoCfg]

\* PasswordWithConfig: if err := o.opPassword.EnterPasswordMode(cfg);
\* err != nil { return nil, err }
PasswordEnter ==
    /\ cpc = "idle"
    /\ \E new \in PwConfigs \cup {cfg} : \E initErr \in BOOLEAN :
          LET s == EnterPasswordMode(cfg, shown, backupCfg, new, initErr)
          IN  /\ cfg' = s.cfg
              /\ shown' = s.shown
              /\ backupCfg' = s.backupCfg
              /\ cpc' = IF s.err THEN "pwerr" ELSE "pwin"
              /\ ret' = IF s.err THEN [text |-> <<>>, err |-> ErrEnter] ELSE ret
    /\ UNCHANGED <<buf, idx, rawMode, reading, eos, lpc, key, sawEOS, fx, pending>>
    /\ UNCHANGED <<userCfg, wrote, frune, subst, lok, kcfg, clog, wvars>>

\* return nil, err
PasswordFail ==
    /\ cpc = "pwerr"
    /\ cpc' = "idle"
    /\ ret' = NoRet
    /\ UNCHANGED <<buf, idx, cfg, rawMode, reading, eos, lpc, key, sawEOS, fx, pending>>
    /\ UNCHANGED <<userCfg, wrote, frune, subst, lok, kcfg, clog, pvars, wvars>>

\* defer o.opPassword.ExitPasswordMode(), run when Slice has returned
PasswordExit ==
    /\ cpc = "pwexit"
    /\ LET s == ExitPasswordMode(cfg, shown, backupCfg)
       IN  /\ cfg' = s.cfg
           /\ shown' = s.shown
           /\ backupCfg' = s.backupCfg
    /\ cpc' = "idle"
    /\ UNCHANGED <<buf, idx, rawMode, reading, eos, lpc, key, sawEOS, fx, pending, ret>>
    /\ UNCHANGED <<userCfg, wrote, frune, subst, lok, kcfg, clog, wvars>>

NextPassword ==
    \/ Next
    \/ PasswordEnter
    \/ PasswordFail
    \/ PasswordExit

SpecPassword == Init /\ [][NextPassword]_vars

(* ---------------- wrapWriter: Stdout() / Stderr() ---------------- *)

\* what the target writer may return for the bytes handed to it
TargetResults == {[n |-> 1, err |-> "nil"], [n |-> 0, err |-> "short write"]}

\* terminal widths reported by FuncGetWidth
Widths == {40, 80}

\* no output produced by a Write yet
NoOutput == [out |-> <<>>, reading |-> FALSE]

\* RuneBuffer.Refresh(f) is one atomic unit: erase the rendered line, run f,
\* redraw the line
RefreshCycle(f) == <<"Clean">> \o f \o <<"print">>

\* if !w.t.IsReading(): the path is chosen by what the terminal is doing now
WriteCheck ==
    /\ wpc = "idle"
    /\ wpc' = IF reading THEN "refresh" ELSE "direct"
    /\ UNCHANGED <<buf, idx, cfg, rawMode, reading, eos, lpc, key, sawEOS, fx, pending, cpc, ret>>
    /\ UNCHANGED <<userCfg, wrote, frune, subst, lok, kcfg, clog, pvars>>
    /\ UNCHANGED <<wfx, wret, tret, width>>

\* return w.target.Write(b)
WriteDirect ==
    /\ wpc = "direct"
    /\ \E t \in TargetResults :
          /\ tret' = t
          /\ wret' = t
    /\ wfx' = [out |-> <<"Write">>, reading |-> reading]
    /\ wpc' = "done"
    /\ UNCHANGED <<buf, idx, cfg, rawMode, reading, eos, lpc, key, sawEOS, fx, pending, cpc, ret>>
    /\ UNCHANGED <<userCfg, wrote, frune, subst, lok, kcfg, clog, pvars, width>>

\* WriteRefresh returning the zero values instead of the target's
WriteRefreshZero ==
    /\ wpc = "refresh"
    /\ \E t \in TargetResults :
          /\ tret' = t
          /\ wret' = [n |-> 0, err |-> "nil"]
    /\ wfx' = [out |-> RefreshCycle(<<"Write">>), reading |-> reading]
    /\ wpc' = "done"
    /\ UNCHANGED <<buf, idx, cfg, rawMode, reading, eos, lpc, key, sawEOS, fx, pending, cpc, ret>>
    /\ UNCHANGED <<userCfg, wrote, frune, subst, lok, kcfg, clog, pvars, width>>

\* w.r.buf.Refresh(func() { n, err = w.target.Write(b) }); return n, err
WriteRefresh ==
    /\ wpc = "refresh"
    /\ \E t \in TargetResults :
          /\ tret' = t
          /\ wret' = t
    /\ wfx' = [out |-> RefreshCycle(<<"Write">>), reading |-> reading]
    /\ wpc' = "done"
    /\ UNCHANGED <<buf, idx, cfg, rawMode, reading, eos, lpc, key, sawEOS, fx, pending, cpc, ret>>
    /\ UNCHANGED <<userCfg, wrote, frune, subst, lok, kcfg, clog, pvars, width>>

\* the caller of Write has its (n, err)
WriteReturn ==
    /\ wpc = "done"
    /\ wpc' = "idle"
    /\ wfx' = NoOutput
    /\ wret' = NoWrite
    /\ tret' = NoWrite
    /\ UNCHANGED <<buf, idx, cfg, rawMode, reading, eos, lpc, key, sawEOS, fx, pending, cpc, ret>>
    /\ UNCHANGED <<userCfg, wrote, frune, subst, lok, kcfg, clog, pvars, width>>

\* the callback given to FuncOnWidthChanged: op.buf.OnWidthChange(newWidth)
WidthChange ==
    /\ \E w \in Widths \ {width} : width' = w
    /\ UNCHANGED <<buf, idx, cfg, rawMode, reading, eos, lpc, key, sawEOS, fx, pending, cpc, ret>>
    /\ UNCHANGED <<userCfg, wrote, frune, subst, lok, kcfg, clog, pvars>>
    /\ UNCHANGED <<wpc, wfx, wret, tret>>

\* sessions without a listener and outside erase mode, written to while
\* they run
InitWrite == Init /\ ~cfg.Listener /\ ~cfg.UniqueEditLine

NextWrite ==
    \/ Next
    \/ WriteCheck
    \/ WriteDirect
    \/ WriteRefresh
    \/ WriteReturn
    \/ WidthChange

SpecWrite == InitWrite /\ [][NextWrite]_vars



(* ---------------- properties ---------------- *)

\* the loop has taken a key through the switch in this step
Keyed == lpc = "read" /\ lpc' \in {"send", "post"}

\* the caller takes the loop's pending value in this step
Received == cpc = "wait" /\ cpc' = "got"

\* C1: a read returns exactly one pair, and the pair is (text, nil) for a line
\* taken from outchan, (text of the InterruptError, ErrInterrupt) for an
\* InterruptError and (empty, io.EOF) for end-of-input; no other pair occurs.
C1_ResultShapes ==
    /\ [](cpc # "got" => ret = NoRet)
    /\ [](cpc = "got" =>
            /\ ret.err \in {ErrNil, ErrInterrupt, EOF}
            /\ ret.err = EOF => ret.text = <<>>)
    /\ [][Received =>
            /\ pending.type \in {"line", "InterruptError", "EOF"}
            /\ pending.type = "line" =>
                  pending.ch = "outchan" /\ ret' = [text |-> pending.Line, err |-> ErrNil]
            /\ pending.type = "InterruptError" =>
                  pending.ch = "errchan" /\ ret' = [text |-> pending.Line, err |-> ErrInterrupt]
            /\ pending.type = "EOF" =>
                  pending.ch = "errchan" /\ ret' = [text |-> <<>>, err |-> EOF]]_vars

\* a read has just received the typed text together with ErrInterrupt
C1_Witness == cpc = "got" /\ ret.err = ErrInterrupt /\ Len(ret.text) = 2

\* C2: raw mode is entered before the read waits, is held while it waits and
\* holds its result, and is left again whenever the read has returned.
C2_RawModeScoped ==
    /\ cpc = "idle" => ~rawMode
    /\ cpc \in {"raw", "notified", "rendered", "wait", "got"} => rawMode

\* the read has returned from an interrupt (the loop has not yet run its
\* listener for Ctrl+C) and the terminal is out of raw mode
C2_Witness == cpc = "idle" /\ lpc = "post" /\ key = CharInterrupt /\ ~rawMode

\* C3: Enter or Ctrl+J emits exactly the content held before the key, for
\* every cursor position and in both modes, and the buffer is empty with
\* cursor 0 when the text is handed to the caller, who gets (text, nil).
C3_SubmitEmitsContent ==
    /\ [][(Keyed /\ key' \in {CharEnter, CharCtrlJ}) =>
            /\ lpc' = "send"
            /\ pending' = LineMsg(buf)
            /\ buf' = <<>> /\ idx' = 0]_vars
    /\ [][(Received /\ key \in {CharEnter, CharCtrlJ}) =>
            /\ ret' = [text |-> pending.Line, err |-> ErrNil]
            /\ buf = <<>> /\ idx = 0]_vars

\* a two-rune line was submitted in non-erase mode and is held by the caller
C3_Witness ==
    /\ cpc = "got" /\ lpc = "post" /\ key = CharCtrlJ
    /\ ~cfg.UniqueEditLine /\ ret.err = ErrNil /\ Len(ret.text) = 2

C5_DeleteOrEOF ==
    /\ [][(Keyed /\ key' = CharDelete) =>
            IF buf = <<>>
            THEN /\ lpc' = "send" /\ pending' = EOFMsg
                 /\ buf' = <<>> /\ idx' = 0
            ELSE /\ lpc' = "post" /\ pending' = NoMsg
                 /\ "KickRead" \in fx' /\ reading'
                 /\ idx' = idx
                 /\ IF idx < Len(buf)
                    THEN /\ buf' = SubSeq(buf, 1, idx) \o SubSeq(buf, idx + 2, Len(buf))
                         /\ "Bell" \notin fx'
                    ELSE /\ buf' = buf
                         /\ "Bell" \in fx']_vars
    /\ [][(Received /\ key = CharDelete) => ret' = [text |-> <<>>, err |-> EOF]]_vars

\* Ctrl+D with the cursor at the end of a non-empty line rang the bell
C5_Witness ==
    /\ lpc = "post" /\ key = CharDelete /\ "Bell" \in fx
    /\ Len(buf) = 2 /\ idx = 2 /\ reading

\* C6 (as claimed): the loop never terminates; after every result it goes
\* back to waiting for a key.
C6_LoopNeverEnds == lpc # "done"

\* C6 (amended): after a completed line, an interrupt or the io.EOF of Ctrl+D
\* the loop goes on to its listener and back to waiting for a key; after the
\* io.EOF of an end-of-stream key on an empty buffer the loop has ended, and
\* it stays ended.
C6_LoopEndsOnlyOnEOS ==
    /\ [][(lpc = "send" /\ lpc' # "send") =>
            IF key = CharEOS /\ pending = EOFMsg
            THEN lpc' = "done"
            ELSE lpc' = "post"]_vars
    /\ [][(lpc = "post" /\ lpc' # "post") => lpc' = "read"]_vars
    /\ [][lpc = "done" => lpc' = "done"]_vars
    /\ [][lpc' = "done" => key = CharEOS]_vars

\* the loop is waiting for a key again while the caller still holds the
\* io.EOF of Ctrl+D
C6_Witness == lpc = "read" /\ cpc = "got" /\ ret.err = EOF /\ ~eos

\* C7: an end-of-stream key on a non-empty buffer delivers the buffered text
\* as a completed line (text, nil), as Enter does; io.EOF is emitted only from
\* an empty buffer, so never before the text.
C7_EOSFlushesFirst ==
    /\ [][(lpc = "read" /\ sawEOS' /\ buf # <<>>) =>
            /\ key' = CharEnter
            /\ lpc' = "send"
            /\ pending' = LineMsg(buf)
            /\ buf' = <<>> /\ idx' = 0]_vars
    /\ [][(Received /\ sawEOS /\ key = CharEnter) =>
            ret' = [text |-> pending.Line, err |-> ErrNil]]_vars
    /\ [][(pending' = EOFMsg /\ pending # EOFMsg) => (buf = <<>> /\ buf' = <<>>)]_vars

\* the stream ended on a two-rune line and the caller holds that line
C7_Witness ==
    /\ cpc = "got" /\ eos /\ sawEOS /\ key = CharEnter
    /\ ret.err = ErrNil /\ Len(ret.text) = 2

\* the Results the policy helpers are tried on, beyond those a read returns
SomeResults ==
    [Line : {<<>>, <<RuneA>>, <<239, 191, 189>>},
     Error : {ErrNil, ErrInterrupt, EOF, "other"}]

\* C8: CanContinue is true exactly for a non-empty line with ErrInterrupt and
\* CanBreak exactly when CanContinue is false and an error is present; they
\* are never both true, both are false without an error, and an interrupt
\* with empty text or any end-of-input gives CanBreak.
C8_ResultPolicy ==
    /\ \A l \in SomeResults :
          /\ CanContinue(l) <=> (l.Line # <<>> /\ l.Error = ErrInterrupt)
          /\ CanBreak(l) <=> (~(l.Line # <<>> /\ l.Error = ErrInterrupt) /\ l.Error # ErrNil)
          /\ ~(CanContinue(l) /\ CanBreak(l))
          /\ l.Error = ErrNil => (~CanContinue(l) /\ ~CanBreak(l))
          /\ ((l.Error = ErrInterrupt /\ l.Line = <<>>) \/ l.Error = EOF) => CanBreak(l)
    /\ cpc = "got" =>
          LET l == Result(ret)
          IN  /\ CanContinue(l) <=> (ret.text # <<>> /\ ret.err = ErrInterrupt)
              /\ CanBreak(l) <=> (~CanContinue(l) /\ ret.err # ErrNil)
              /\ ~(CanContinue(l) /\ CanBreak(l))
              /\ ret.err = ErrNil => (~CanContinue(l) /\ ~CanBreak(l))
              /\ ((ret.err = ErrInterrupt /\ ret.text = <<>>) \/ ret.err = EOF) => CanBreak(l)

\* a read returned an interrupt whose text is one rune with no valid encoding
C8_Witness ==
    /\ cpc = "got" /\ ret.err = ErrInterrupt /\ ret.text = <<MetaTranspose>>
    /\ CanContinue(Result(ret)) /\ ~CanBreak(Result(ret))

\* C9: 0 <= cursor <= len(content) after every step of the loop, including
\* the Enter, Ctrl+C and Ctrl+D paths and a listener override.
C9_CursorInRange == 0 <= idx /\ idx <= Len(buf)

\* a listener override has left a line with the cursor at its end, after the
\* loop had emitted a result and reset the buffer
C9_Witness ==
    /\ cfg.Listener /\ lpc = "read" /\ cpc = "got"
    /\ buf = <<RuneA, RuneSpace>> /\ idx = 2

\* C10: Ctrl+G and Meta+T only alert: the bell rings, content and cursor are
\* unchanged and no result is emitted.
C10_AlertOnly ==
    [][(Keyed /\ key' \in {CharBell, MetaTranspose}) =>
          /\ buf' = buf /\ idx' = idx
          /\ "Bell" \in fx'
          /\ lpc' = "post" /\ pending' = NoMsg]_vars

\* C11: Backspace or Ctrl+H with the cursor at column zero, whether the
\* content is empty or not, is a rejected no-op signalled by the bell: the bell
\* rings, content and cursor are unchanged, nothing is sent and the loop goes on.
C11_BackspaceAtZeroAlerts ==
    [][(Keyed /\ key' \in {CharBackspace, CharCtrlH} /\ idx = 0) =>
          /\ "Bell" \in fx'
          /\ buf' = buf /\ idx' = idx
          /\ lpc' = "post" /\ pending' = NoMsg]_vars

\* the text the loop has written into the line for the key in hand is a
\* banner: the key is an interrupt, or a Ctrl+D that ended the input, outside
\* erase mode and under the configuration the Operation was built with
BannerKey(k) ==
    /\ Keyed
    /\ key' = k
    /\ k = CharDelete => pending' = EOFMsg
    /\ ~cfg.UniqueEditLine
    /\ cfg = ConfigInit(userCfg)

\* C12 as stated: an InterruptPrompt or EOFPrompt configured as the empty
\* string suppresses the banner: after Config.Init an interrupt (resp. a Ctrl+D
\* end-of-input) outside erase mode writes only the line terminator.
C12_EmptySuppresses ==
    /\ [][(BannerKey(CharInterrupt) /\ userCfg.InterruptPrompt = <<>>) =>
            wrote' = <<RuneNL>>]_vars
    /\ [][(BannerKey(CharDelete) /\ userCfg.EOFPrompt = <<>>) =>
            wrote' = <<RuneNL>>]_vars

\* C12: a banner configured as the empty string is replaced by the default
\* ("^C" resp. "^D") and is written before the line terminator; a banner
\* configured as "\n" is suppressed, and only the line terminator is written.
C12_NewlineSuppresses ==
    /\ [][BannerKey(CharInterrupt) =>
            wrote' = (IF userCfg.InterruptPrompt = <<RuneNL>> THEN <<>>
                      ELSE IF userCfg.InterruptPrompt = <<>> THEN PromptC
                      ELSE userCfg.InterruptPrompt) \o <<RuneNL>>]_vars
    /\ [][BannerKey(CharDelete) =>
            wrote' = (IF userCfg.EOFPrompt = <<RuneNL>> THEN <<>>
                      ELSE IF userCfg.EOFPrompt = <<>> THEN PromptD
                      ELSE userCfg.EOFPrompt) \o <<RuneNL>>]_vars

\* an interrupt under an InterruptPrompt left empty wrote "^C" and the line
\* terminator, in a configuration whose EOFPrompt "\n" is suppressed
C12_Witness ==
    /\ lpc = "send" /\ key = CharInterrupt /\ ~cfg.UniqueEditLine
    /\ userCfg.InterruptPrompt = <<>> /\ userCfg.EOFPrompt = <<RuneNL>>
    /\ cfg.EOFPrompt = <<>>
    /\ wrote = PromptC \o <<RuneNL>>

\* C13: the password submode restores the prior configuration on every exit
\* path.  Outside a password call the Operation runs the configuration it was
\* built with and nothing is saved; once EnterPasswordMode has succeeded the
\* return of the read, whatever its result, leads to ExitPasswordMode, which
\* puts back the saved configuration; when EnterPasswordMode fails the error
\* is returned with the configuration unchanged and without a read.
C13_PasswordRestores ==
    /\ [](cpc \in {"idle", "pwerr"} =>
            /\ cfg = ConfigInit(userCfg)
            /\ shown = Shown(cfg)
            /\ backupCfg = NoCfg)
    /\ [](cpc \in {"pwin", "pwexit"} => backupCfg = ConfigInit(userCfg))
    /\ [][(cpc = "got" /\ cpc' # "got" /\ backupCfg # NoCfg) => cpc' = "pwexit"]_vars
    /\ [][(cpc = "pwexit" /\ cpc' # "pwexit") =>
            cpc' = "idle" /\ cfg' = backupCfg /\ shown' = Shown(backupCfg)]_vars
    /\ [][(cpc = "idle" /\ cpc' = "pwerr") =>
            /\ ret'.err = ErrEnter /\ ret'.text = <<>>
            /\ UNCHANGED <<cfg, shown, backupCfg, rawMode, reading, clog>>]_vars
    /\ [][(cpc = "pwerr" /\ cpc' # "pwerr") =>
            cpc' = "idle" /\ UNCHANGED <<cfg, rawMode, reading, clog>>]_vars

\* a password read under a configuration with a listener of its own was ended
\* by Ctrl+C, and the call has returned with the session's configuration back
C13_Witness ==
    /\ cpc = "idle" /\ lpc = "post" /\ key = CharInterrupt
    /\ kcfg.Prompt = "Password: " /\ kcfg.Listener
    /\ cfg = ConfigInit(userCfg) /\ ~cfg.Listener
    /\ backupCfg = NoCfg

\* C14: ReadSlice is the same as Readline: for the pair a read has produced,
\* ReadSlice returns the same error and the bytes of the text Readline returns,
\* including on interrupt, where Readline returns the partial text.
C14_SliceSameAsReadline == cpc = "got" => ReadSlice(ret) = Readline(ret)

\* C15: a Write through the wrapped Stdout/Stderr that finds the terminal
\* reading is carried out as the side effect of one Refresh cycle (erase, write,
\* redraw), also when reading has stopped by the time of the write and while
\* the loop and width changes go on; a Write that finds the terminal not
\* reading goes straight to the target with no redraw.  Either way the byte
\* count and error of the target are returned unchanged, and the line content
\* and cursor are not touched.
C15_WriteSandwiched ==
    /\ [][(wpc = "idle" /\ wpc' # "idle") =>
            wpc' = IF reading THEN "refresh" ELSE "direct"]_vars
    /\ [][(wpc = "refresh" /\ wpc' # "refresh") =>
            /\ wpc' = "done"
            /\ wfx'.out = <<"Clean", "Write", "print">>
            /\ tret' \in TargetResults /\ wret' = tret'
            /\ UNCHANGED <<buf, idx, reading, lpc, pending>>]_vars
    /\ [][(wpc = "direct" /\ wpc' # "direct") =>
            /\ wpc' = "done"
            /\ wfx'.out = <<"Write">>
            /\ tret' \in TargetResults /\ wret' = tret'
            /\ UNCHANGED <<buf, idx, reading, lpc, pending>>]_vars
    /\ [](wpc \in {"idle", "refresh", "direct"} => wfx = NoOutput /\ wret = NoWrite)

\* a Write that found the terminal reading was sandwiched in a Refresh cycle
\* after reading had stopped and the width had changed, while the loop was
\* blocked on its send; the target's short write was returned.
C15_Witness ==
    /\ wpc = "done" /\ wfx.out = RefreshCycle(<<"Write">>) /\ ~wfx.reading
    /\ wret = [n |-> 0, err |-> "short write"]
    /\ lpc = "send" /\ width = 40

C17_VetoAndSubstitute ==
    /\ [][(lpc = "read" /\ lpc' = "veto") =>
            /\ UNCHANGED <<buf, idx, key, pending, wrote, cpc, ret>>
            /\ lok' = "none"
            /\ fx' = {"Refresh"}]_vars
    /\ [](lpc = "veto" => pending = NoMsg /\ lok = "none")
    /\ [][(lpc = "veto" /\ lpc' # "veto") =>
            /\ lpc' = "read"
            /\ UNCHANGED <<buf, idx, key, pending, lok>>]_vars
    /\ [][Keyed =>
            /\ sawEOS' = (frune' = CharEOS)
            /\ IF frune' = CharEOS /\ buf = <<>>
               THEN /\ key' = CharEOS /\ pending' = EOFMsg
                    /\ UNCHANGED <<buf, idx>>
               ELSE LET d == Dispatch(RB(buf, idx), key', cfg, TRUE)
                    IN  /\ key' = IF frune' = CharEOS THEN CharEnter ELSE frune'
                        /\ buf' = d.b.buf /\ idx' = d.b.idx
                        /\ pending' = d.send]_vars
    /\ [][(lpc = "post" /\ lpc' = "post") \/ (lpc = "send" /\ lpc' = "post") =>
            UNCHANGED <<key, frune>>]_vars

\* the filter has put rune 0 in the place of a key typed on a non-empty
\* line while the stream is still open: the line is flushed as CharEnter
C17_Witness ==
    /\ cfg.FuncFilterInputRune /\ subst /\ ~eos
    /\ lpc = "send" /\ frune = CharEOS /\ sawEOS /\ key = CharEnter
    /\ pending.type = "line" /\ pending.Line = <<RuneA>>

\* the steps a read call has taken so far, in the order it must take them
RunesOrder(c) ==
    <<"EnterRawMode">> \o (IF c.Listener THEN <<"OnChange">> ELSE <<>>)
        \o <<"Refresh", "KickRead", "select">>

\* s is an initial part of t
IsPrefix(s, t) == Len(s) <= Len(t) /\ s = SubSeq(t, 1, Len(s))

C19_HandoffExact ==
    /\ [](lpc = "send" <=> pending # NoMsg)
    /\ [][pending' # pending => (pending = NoMsg \/ pending' = NoMsg)]_vars
    /\ [][(lpc = "send" /\ lpc' # "send") =>
            /\ Received
            /\ pending' = NoMsg
            /\ ret' = RunesResult(pending)]_vars
    /\ [][Received =>
            /\ lpc = "send" /\ lpc' # "send"
            /\ pending.ch \in {"outchan", "errchan"}
            /\ ret = NoRet]_vars
    /\ [][ret' # ret => (Received \/ (cpc = "got" /\ cpc' # "got" /\ ret' = NoRet))]_vars
    /\ [][(cpc' = "got" /\ cpc # "got") => Received]_vars
    /\ [][(lpc = "send" /\ lpc' = "send") => UNCHANGED <<buf, idx, key, pending>>]_vars

\* a read call has taken the line "a" the loop sent for Enter; nothing is
\* pending any more and the loop has gone on towards its listener call
C19_Witness ==
    /\ cpc = "got" /\ ret = [text |-> <<RuneA>>, err |-> ErrNil]
    /\ lpc = "post" /\ key = CharEnter /\ pending = NoMsg /\ ~sawEOS

\* the key in hand is one whose result the loop has handed to the caller
PostSend ==
    /\ lpc = "post"
    /\ \/ key \in {CharEnter, CharCtrlJ, CharInterrupt}
       \/ key = CharDelete /\ "KickRead" \notin fx

\* C20: the loop's work after a terminating key never overlaps the caller's
\* next steps: when the loop makes its listener call after handing over a
\* result, the configuration is still the one under which the key was read,
\* and the caller either still holds the result or has made neither the
\* initial listener call nor the render of a next read.
C20_PostKeyBeforeFollowUp ==
    [][(PostSend /\ lpc' = "read") =>
          /\ cfg = kcfg
          /\ \/ cpc = "got"
             \/ \A i \in 1..Len(clog) : clog[i] \notin {"OnChange", "Refresh"}]_vars

====
